---- MODULE Spec2Model ----
(***************************************************************************)
(* Model of the Power BI client (src/powerbi_client.py), of the MCP tools  *)
(* (src/mcp.py) and of the agent tools (src/api.py).                       *)
(*                                                                         *)
(* Python values are records [k, v]: k is the runtime type, v the payload. *)
(* A Python str is a sequence of one-character strings, so that substring, *)
(* suffix and length tests are computed and not assumed.                   *)
(***************************************************************************)
EXTENDS Integers, Sequences, FiniteSets, TLC

(***************************************************************************)
(* Python values                                                           *)
(***************************************************************************)
None == [k |-> "null", v |-> 0]
NaN == [k |-> "nan", v |-> 0]
PyInt(n) == [k |-> "int", v |-> n]
PyFloat(n) == [k |-> "float", v |-> n]
PyBool(b) == [k |-> "bool", v |-> b]
PyStr(s) == [k |-> "str", v |-> s]

\* bool(x): None, 0, 0.0, False and "" are falsy; nan is truthy
Truthy(x) ==
  CASE x.k = "null" -> FALSE
    [] x.k = "nan" -> TRUE
    [] x.k = "int" -> x.v # 0
    [] x.k = "float" -> x.v # 0
    [] x.k = "bool" -> x.v
    [] x.k = "str" -> Len(x.v) > 0

\* a or b
Or(a, b) == IF Truthy(a) THEN a ELSE b

\* isinstance(x, (int, float)): bool is a subclass of int, nan is a float
IsNumber(x) == x.k \in {"int", "float", "bool", "nan"}

\* sub in s
Contains(s, sub) ==
  \E i \in 0..(Len(s) - Len(sub)) : SubSeq(s, i + 1, i + Len(sub)) = sub

\* s.endswith(suf)
EndsWith(s, suf) ==
  /\ Len(s) >= Len(suf)
  /\ SubSeq(s, Len(s) - Len(suf) + 1, Len(s)) = suf

\* any(c in s for c in chars)
ContainsAny(s, chars) == \E c \in chars : Contains(s, <<c>>)

(***************************************************************************)
(* pandas: DataFrame(rows) and row.get(key)                                *)
(***************************************************************************)
Fields == {"table", "column", "min", "max", "card"}

\* the dtype pandas infers for a column: all ints stay int64; ints, floats
\* and nulls together become float64; anything else is an object column
ColumnDtype(vals) ==
  LET kinds == {vals[j].k : j \in 1..Len(vals)}
  IN  IF kinds = {"int"} THEN "int64"
      ELSE IF kinds \subseteq {"int", "float", "null", "nan"} /\ kinds # {"null"} /\ kinds # {}
           THEN "float64"
      ELSE "object"

\* the value a cell holds once its column has that dtype
Coerce(x, dtype) ==
  IF dtype = "float64"
  THEN CASE x.k = "null" -> NaN
         [] x.k = "int" -> PyFloat(x.v)
         [] OTHER -> x
  ELSE x

\* pd.DataFrame(rows): the records of one result table; style is the spelling
\* of the keys the service used ("bracket": "[Min]", "plain": "Min")
DataFrame(style, rows) ==
  [style |-> style,
   rows |-> [i \in 1..Len(rows) |->
              [f \in Fields |->
                Coerce(rows[i][f], ColumnDtype([j \in 1..Len(rows) |-> rows[j][f]]))]]]

EmptyFrame == [style |-> "bracket", rows |-> <<>>]

\* row.get("[X]") / row.get("X"): None when the frame has no such column
RowGet(df, i, style, field) ==
  IF df.style = style THEN df.rows[i][field] ELSE None

\* row.get("[X]") or row.get("X")
RowField(df, i, field) ==
  Or(RowGet(df, i, "bracket", field), RowGet(df, i, "plain", field))

(***************************************************************************)
(* describe_dataset: filtering, grouping, type inference                   *)
(***************************************************************************)
DateTableTemplate ==
  <<"D","a","t","e","T","a","b","l","e","T","e","m","p","l","a","t","e">>
LocalDateTable == <<"L","o","c","a","l","D","a","t","e","T","a","b","l","e">>
RowNumberMark == <<"R","o","w","N","u","m","b","e","r","-">>

\* SkipTable without the LocalDateTable test
SkipTable_TemplateOnly(table_name) ==
  /\ Truthy(table_name)
  /\ Contains(table_name.v, DateTableTemplate)

\* the two `continue` guards
SkipTable(table_name) ==
  /\ Truthy(table_name)
  /\ \/ Contains(table_name.v, DateTableTemplate)
     \/ Contains(table_name.v, LocalDateTable)

SkipColumn(col_name) ==
  /\ Truthy(col_name)
  /\ Contains(col_name.v, RowNumberMark)

DateSeparators == {"-", "/", ":"}
MinDateLen == 8

\* the data_type inferred from min_val
InferType(min_val) ==
  IF min_val.k # "null"
  THEN IF IsNumber(min_val) THEN "Number"
       ELSE IF min_val.k = "str"
            THEN IF ContainsAny(min_val.v, DateSeparators) /\ Len(min_val.v) >= MinDateLen
                 THEN "DateTime"
                 ELSE "Text"
            ELSE "Unknown"
  ELSE "Unknown"

\* the column dict appended for row i
ColumnOf(df, i) ==
  LET min_val == RowField(df, i, "min")
  IN  [name |-> RowField(df, i, "column"),
       dataType |-> InferType(min_val),
       minValue |-> min_val,
       maxValue |-> RowField(df, i, "max"),
       cardinality |-> RowField(df, i, "card")]

\* position of table_name in the insertion-ordered tables_dict, 0 if absent
TableIndex(tables_dict, table_name) ==
  IF \E j \in 1..Len(tables_dict) : tables_dict[j].name = table_name
  THEN CHOOSE j \in 1..Len(tables_dict) : tables_dict[j].name = table_name
  ELSE 0

\* tables_dict after the loop body has run for row i
AddRow(tables_dict, df, i) ==
  LET table_name == RowField(df, i, "table")
      col_name == RowField(df, i, "column")
      withTable == IF TableIndex(tables_dict, table_name) = 0
                   THEN Append(tables_dict, [name |-> table_name, columns |-> <<>>])
                   ELSE tables_dict
      t == TableIndex(withTable, table_name)
  IN  IF SkipTable(table_name) \/ SkipColumn(col_name)
      THEN tables_dict
      ELSE [withTable EXCEPT ![t].columns = Append(@, ColumnOf(df, i))]

RECURSIVE BuildTables(_, _, _)
BuildTables(tables_dict, df, i) ==
  IF i > Len(df.rows) THEN tables_dict
  ELSE BuildTables(AddRow(tables_dict, df, i), df, i + 1)

\* tables = list(tables_dict.values())
Tables(df) == BuildTables(<<>>, df, 1)

(***************************************************************************)
(* describe_dataset: relationship inference                                *)
(***************************************************************************)
KeySuffixes ==
  {<<" ","K","e","y">>, <<"_","K","e","y">>, <<" ","I","D">>, <<"_","I","D">>,
   <<"_","i","d">>}

\* KeyShaped as "ends in Key or ID", without the separator
KeyShaped_AnyIdSuffix(col_name) ==
  /\ Truthy(col_name)
  /\ \/ EndsWith(col_name.v, <<"K","e","y">>)
     \/ EndsWith(col_name.v, <<"I","D">>)
     \/ EndsWith(col_name.v, <<"_","i","d">>)

\* the test that makes a column a key column
KeyShaped(col_name) ==
  /\ Truthy(col_name)
  /\ \/ \E suf \in KeySuffixes : EndsWith(col_name.v, suf)
     \/ col_name.v = <<"I","D">>

KeyIndex(key_columns, col_name) ==
  IF \E j \in 1..Len(key_columns) : key_columns[j].keyColumn = col_name
  THEN CHOOSE j \in 1..Len(key_columns) : key_columns[j].keyColumn = col_name
  ELSE 0

\* key_columns.setdefault(col_name, []).append(table["name"])
AddKey(key_columns, col_name, table_name) ==
  LET withKey == IF KeyIndex(key_columns, col_name) = 0
                 THEN Append(key_columns, [keyColumn |-> col_name, tables |-> <<>>])
                 ELSE key_columns
      j == KeyIndex(withKey, col_name)
  IN  [withKey EXCEPT ![j].tables = Append(@, table_name)]

\* the two nested loops over tables and their columns, from (t, c) on
RECURSIVE BuildKeys(_, _, _, _)
BuildKeys(key_columns, tables, t, c) ==
  IF t > Len(tables) THEN key_columns
  ELSE IF c > Len(tables[t].columns) THEN BuildKeys(key_columns, tables, t + 1, 1)
  ELSE LET col_name == tables[t].columns[c].name
       IN  BuildKeys(IF KeyShaped(col_name)
                     THEN AddKey(key_columns, col_name, tables[t].name)
                     ELSE key_columns,
                     tables, t, c + 1)

KeyColumns(tables) == BuildKeys(<<>>, tables, 1, 1)

\* a key column makes a relationship when len(table_list) > 1
Linked(table_list) == Len(table_list) > 1

RECURSIVE SelectLinked(_, _)
SelectLinked(key_columns, j) ==
  IF j > Len(key_columns) THEN <<>>
  ELSE (IF Linked(key_columns[j].tables) THEN <<key_columns[j]>> ELSE <<>>)
       \o SelectLinked(key_columns, j + 1)

Relationships(tables) == SelectLinked(KeyColumns(tables), 1)

(***************************************************************************)
(* describe_dataset: rendering and result                                  *)
(***************************************************************************)
\* sample = f"{min_v} to {max_v}" if min_v and max_v else "N/A"
Sample(col) ==
  IF Truthy(col.minValue) /\ Truthy(col.maxValue)
  THEN [na |-> FALSE, min |-> col.minValue, max |-> col.maxValue]
  ELSE [na |-> TRUE, min |-> None, max |-> None]

ColumnLine(col) ==
  [kind |-> "column", name |-> col.name, dataType |-> col.dataType,
   card |-> col.cardinality, sample |-> Sample(col)]

FixedLine(text) == [kind |-> "fixed", text |-> text]

\* TableLines with the columns of a table in reverse order
TableLines_ColumnsReversed(table) ==
  <<[kind |-> "table", name |-> table.name],
    FixedLine("| Column | Type | Cardinality | Sample Range |"),
    FixedLine("|--------|------|-------------|--------------|")>>
  \o [c \in 1..Len(table.columns) |->
       ColumnLine(table.columns[Len(table.columns) + 1 - c])]

\* the lines appended for one table: heading, two header rows, one per column
TableLines(table) ==
  <<[kind |-> "table", name |-> table.name],
    FixedLine("| Column | Type | Cardinality | Sample Range |"),
    FixedLine("|--------|------|-------------|--------------|")>>
  \o [c \in 1..Len(table.columns) |-> ColumnLine(table.columns[c])]

RECURSIVE AllTableLines(_, _)
AllTableLines(tables, t) ==
  IF t > Len(tables) THEN <<>>
  ELSE TableLines(tables[t]) \o AllTableLines(tables, t + 1)

RelationshipLines(relationships) ==
  IF Len(relationships) > 0
  THEN <<FixedLine("## Inferred Relationships"),
         FixedLine("The following key columns appear in multiple tables, suggesting relationships:")>>
       \o [r \in 1..Len(relationships) |->
            [kind |-> "rel", keyColumn |-> relationships[r].keyColumn,
             tables |-> relationships[r].tables]]
  ELSE <<>>

TipLines ==
  <<FixedLine(""), FixedLine("## DAX Query Tips"),
    FixedLine("- Use EVALUATE to return a table"),
    FixedLine("- Reference tables with single quotes: 'TableName'"),
    FixedLine("- Reference columns as 'Table'[Column]"),
    FixedLine("- Use SUMMARIZECOLUMNS for grouping and aggregation"),
    FixedLine("- Use TOPN for limiting results")>>

\* llm_lines, one element per appended line
LlmContext(dataset_name, tables, relationships) ==
  <<[kind |-> "title", dataset |-> dataset_name], FixedLine(""),
    FixedLine("## Overview"), [kind |-> "overview", count |-> Len(tables)],
    FixedLine(""), FixedLine("## Tables and Columns")>>
  \o AllTableLines(tables, 1)
  \o RelationshipLines(relationships)
  \o TipLines

\* steps 2-4 of describe_dataset on the frame execute_dax returned
Schema(dataset_name, dataset_id, df_schema) ==
  LET tables == Tables(df_schema)
      relationships == Relationships(tables)
  IN  [dataset_name |-> dataset_name,
       dataset_id |-> dataset_id,
       tables |-> tables,
       relationships |-> relationships,
       llm_context |-> LlmContext(dataset_name, tables, relationships)]

(***************************************************************************)
(* The Power BI service, as the client sees it                             *)
(***************************************************************************)
WsIds == <<1, 2>>
WsNames == {"Sales", "HR"}
Gone == "<deleted>"

\* whether a workspace is on dedicated capacity
Premium(id) == id = 1

\* GET /groups: the workspaces that exist, in id order
Listing(svc) ==
  LET Exists(id) == svc[id] # Gone
      ids == SelectSeq(WsIds, Exists)
  IN  [i \in 1..Len(ids) |->
        [name |-> svc[ids[i]], id |-> ids[i], isOnDedicatedCapacity |-> Premium(ids[i])]]

\* GET /groups/{id}/datasets: workspace 1 holds two datasets, workspace 2 none
DatasetListing(id) ==
  IF id = 1
  THEN <<[name |-> "Model", id |-> "d1"], [name |-> "Other", id |-> "d2"]>>
  ELSE <<>>

(***************************************************************************)
(* PowerBIClient.  A call runs in a context ctx: the client's cache, and   *)
(* the requests the call has issued so far (n of them, `lists` of them     *)
(* workspace listings, `listed` when one of those succeeded, `sent` the    *)
(* queries posted, `got` the envelopes received).  env is what the call    *)
(* meets: the service state, the requests that fail in transport, and the  *)
(* response envelope of each query posted.  A method yields [exc, val, ctx]*)
(***************************************************************************)
NoExc == [type |-> "none", msg |-> <<>>]
Exc(type, msg) == [type |-> type, msg |-> msg]
Ret(val, ctx) == [exc |-> NoExc, val |-> val, ctx |-> ctx]
Raise(exc, ctx) == [exc |-> exc, val |-> None, ctx |-> ctx]
Raised(r) == r.exc.type # "none"

NoCache == [isNone |-> TRUE, map |-> <<>>]

\* {ws["name"]: ws for ws in workspaces}: a later duplicate name wins
CacheOf(workspaces) ==
  [isNone |-> FALSE,
   map |-> [nm \in {workspaces[i].name : i \in 1..Len(workspaces)} |->
             workspaces[CHOOSE i \in 1..Len(workspaces) :
                          /\ workspaces[i].name = nm
                          /\ \A j \in 1..Len(workspaces) :
                               workspaces[j].name = nm => j <= i]]]

\* not self._workspaces_cache: None and the empty dict are both falsy
CacheFalsy(cache) == cache.isNone \/ DOMAIN cache.map = {}

\* requests.get / requests.post plus raise_for_status: request number n of
\* the call fails when env says so
Fails(env, n) == n \in env.fails

ListWorkspaces(ctx, env) ==
  LET c1 == [ctx EXCEPT !.n = @ + 1, !.lists = @ + 1]
      workspaces == Listing(env.svc)
  IN  IF Fails(env, c1.n)
      THEN Raise(Exc("RequestException", <<"GET groups">>), c1)
      ELSE Ret(workspaces, [c1 EXCEPT !.cache = CacheOf(workspaces), !.listed = TRUE])

\* the shared prologue of get_workspace_id and is_premium
EnsureCache(ctx, env) ==
  IF CacheFalsy(ctx.cache) THEN ListWorkspaces(ctx, env) ELSE Ret(None, ctx)

\* the lookup of get_workspace_id in the cache the prologue r left
WorkspaceIdIn(r, workspace_name) ==
  IF Raised(r) THEN r
  ELSE IF workspace_name \in DOMAIN r.ctx.cache.map
       THEN Ret(r.ctx.cache.map[workspace_name].id, r.ctx)
       ELSE Raise(Exc("ValueError", <<"Workspace not found", workspace_name>>), r.ctx)

GetWorkspaceId(ctx, env, workspace_name) ==
  WorkspaceIdIn(EnsureCache(ctx, env), workspace_name)

\* the lookup of is_premium in the cache the prologue r left
PremiumIn(r, workspace_name) ==
  IF Raised(r) THEN r
  ELSE IF workspace_name \in DOMAIN r.ctx.cache.map
       THEN Ret(r.ctx.cache.map[workspace_name].isOnDedicatedCapacity, r.ctx)
       ELSE Ret(FALSE, r.ctx)

IsPremium(ctx, env, workspace_name) ==
  PremiumIn(EnsureCache(ctx, env), workspace_name)

\* a deleted workspace answers 404, which raise_for_status raises
DatasetsOf(r, env) ==
  LET c1 == [r.ctx EXCEPT !.n = @ + 1]
  IN  IF Raised(r) THEN r
      ELSE IF Fails(env, c1.n) \/ env.svc[r.val] = Gone
           THEN Raise(Exc("RequestException", <<"GET datasets">>), c1)
           ELSE Ret(DatasetListing(r.val), c1)

ListDatasets(ctx, env, workspace_name) ==
  DatasetsOf(GetWorkspaceId(ctx, env, workspace_name), env)

\* df["name"] on the frame of an empty listing has no such column: KeyError
DatasetIdIn(r, workspace_name, dataset_name) ==
  LET df == r.val
      IsMatch(d) == d.name = dataset_name
      match == SelectSeq(df, IsMatch)
  IN  IF Raised(r) THEN r
      ELSE IF Len(df) = 0 THEN Raise(Exc("KeyError", <<"name">>), r.ctx)
      ELSE IF Len(match) = 0
           THEN Raise(Exc("ValueError",
                          <<"Dataset not found", dataset_name, workspace_name>>), r.ctx)
           ELSE Ret(match[1].id, r.ctx)

GetDatasetId(ctx, env, workspace_name, dataset_name) ==
  DatasetIdIn(ListDatasets(ctx, env, workspace_name), workspace_name, dataset_name)

(***************************************************************************)
(* Query execution                                                         *)
(***************************************************************************)
\* result.get("results", [{}]): the default is one result without tables
DefaultResults == <<[hasTables |-> FALSE, tables |-> <<>>]>>

\* the frame built from a 200 envelope, or the IndexError of [...][0]
Reshape(envelope, ctx) ==
  LET results == IF envelope.hasResults THEN envelope.results ELSE DefaultResults
      tables == IF results[1].hasTables THEN results[1].tables ELSE <<>>
  IN  IF Len(results) = 0
      THEN Raise(Exc("IndexError", <<"list index out of range">>), ctx)
      ELSE IF Len(tables) > 0
           THEN Ret(DataFrame(tables[1].style, tables[1].rows), ctx)
           ELSE Ret(EmptyFrame, ctx)

\* the POST and the handling of its response, r being what get_dataset_id
\* yielded
PostQuery(r, env, dax_query) ==
  LET c3 == [r.ctx EXCEPT !.n = @ + 1, !.sent = Append(@, dax_query)]
      envelope == env.posts[Len(c3.sent)]
      c4 == [c3 EXCEPT !.got = Append(@, envelope)]
  IN  IF Raised(r) THEN r
      ELSE IF Fails(env, c3.n)
           THEN Raise(Exc("RequestException", <<"POST executeQueries">>), c3)
      ELSE IF envelope.status # 200
           THEN Raise(Exc("RuntimeError", <<"DAX query failed", envelope.message>>), c4)
      ELSE Reshape(envelope, c4)

\* get_dataset_id after get_workspace_id yielded r
DatasetIdAfter(r, env, workspace_name, dataset_name) ==
  IF Raised(r) THEN r ELSE GetDatasetId(r.ctx, env, workspace_name, dataset_name)

ExecuteDax(ctx, env, workspace_name, dataset_name, dax_query) ==
  PostQuery(DatasetIdAfter(GetWorkspaceId(ctx, env, workspace_name),
                           env, workspace_name, dataset_name),
            env, dax_query)

\* `if top_n:` is false for None and for 0
ReadTableQuery(table_name, top_n) ==
  IF Truthy(top_n)
  THEN [kind |-> "TOPN", n |-> top_n.v, table |-> table_name]
  ELSE [kind |-> "TABLE", table |-> table_name]

ReadTable(ctx, env, workspace_name, dataset_name, table_name, top_n) ==
  ExecuteDax(ctx, env, workspace_name, dataset_name, ReadTableQuery(table_name, top_n))

StatsQuery == [kind |-> "COLUMNSTATISTICS"]

\* steps 2-4 on what the statistics query yielded
SchemaOf(dataset_name, dataset_id, r) ==
  IF Raised(r) THEN r ELSE Ret(Schema(dataset_name, dataset_id, r.val), r.ctx)

\* the statistics query and what follows, r being what get_dataset_id yielded
DescribeAfter(r, env, workspace_name, dataset_name) ==
  IF Raised(r) THEN r
  ELSE SchemaOf(dataset_name, r.val,
                ExecuteDax(r.ctx, env, workspace_name, dataset_name, StatsQuery))

DescribeDataset(ctx, env, workspace_name, dataset_name) ==
  DescribeAfter(GetDatasetId(ctx, env, workspace_name, dataset_name),
                env, workspace_name, dataset_name)

(***************************************************************************)
(* Tool surfaces                                                           *)
(***************************************************************************)
Returned(val) == [outcome |-> "returned", exc |-> NoExc, val |-> val]
Propagated(exc) == [outcome |-> "raised", exc |-> exc, val |-> None]

\* an @mcp.tool body has no try/except: what the client raises leaves the tool
McpTool(r, val) == IF Raised(r) THEN Propagated(r.exc) ELSE Returned(val)

\* an agent tool body is wrapped in try/except Exception
AgentTool(r, val, prefix) ==
  IF Raised(r) THEN Returned([text |-> prefix, detail |-> r.exc.msg]) ELSE Returned(val)

McpWorkspaceRows(workspaces) ==
  [i \in 1..Len(workspaces) |->
    [name |-> workspaces[i].name, id |-> workspaces[i].id,
     is_premium |-> workspaces[i].isOnDedicatedCapacity]]

SearchTableQuery(table_name, column_name, search_value, max_rows) ==
  [kind |-> "TOPN_FILTER", n |-> max_rows, table |-> table_name,
   columns |-> <<column_name>>, term |-> search_value]

UsageHint == "Use table and column names in DAX queries like: ..."

\* str.lower() of a dataType
Lower(dataType) ==
  CASE dataType = "Number" -> "number"
    [] dataType = "DateTime" -> "datetime"
    [] dataType = "Text" -> "text"
    [] dataType = "Unknown" -> "unknown"

\* TextColumns without the dataType test
TextColumns_AllColumns(table) ==
  [i \in 1..Len(table.columns) |-> table.columns[i].name]

\* text_columns of one table
TextColumns(table) ==
  LET IsText(col) == Lower(col.dataType) \in {"string", "text"}
      cols == SelectSeq(table.columns, IsText)
  IN  [i \in 1..Len(cols) |-> cols[i].name]

FilterQuery(table_name, text_columns, search_term) ==
  [kind |-> "FILTER", table |-> table_name, columns |-> text_columns,
   term |-> search_term]

(***************************************************************************)
(* State                                                                   *)
(***************************************************************************)
VARIABLES
  svc,       \* the service: workspace id -> its current name, or Gone
  stats,     \* the result table the service answers a query with
  created,   \* mcp.py: _client is not None
  cache,     \* client -> its _workspaces_cache
  listed,    \* client -> a workspace listing has succeeded on it (history)
  resolved,  \* client -> name -> the id get_workspace_id first returned, or 0
  last       \* the last call: who, what, with what, and how it ended

vars == <<svc, stats, created, cache, listed, resolved, last>>

Clients == {"mcp", "api"}
ArgWorkspaces == WsNames \cup {"Nope"}
ArgDatasets == {"Model", "Nope"}
ArgLimits == {0, 5}
ToolTargets ==
  {<<"Sales", "Model">>, <<"Sales", "Nope">>, <<"HR", "Model">>, <<"Nope", "Model">>}

InitSvc == <<"Sales", "HR">>
NoStats == [style |-> "bracket", rows |-> <<>>]

\* one row of a statistics table
Row(t, c, mn, mx, card) ==
  [table |-> PyStr(t), column |-> PyStr(c), min |-> mn, max |-> mx, card |-> card]

\* api.py, at import: the first workspace listed and its first dataset
WORKSPACE_NAME == Listing(InitSvc)[1].name
DATASET_NAME == DatasetListing(Listing(InitSvc)[1].id)[1].name

\* a fresh call context on client c
Ctx(c) ==
  [cache |-> cache[c], n |-> 0, lists |-> 0, listed |-> FALSE, sent |-> <<>>,
   got |-> <<>>]

\* the responses a posted query can meet
OkEnvelope(table) ==
  [status |-> 200, message |-> "", hasResults |-> TRUE,
   results |-> <<[hasTables |-> TRUE, tables |-> <<table>>]>>]
NoResultsKey ==
  [status |-> 200, message |-> "", hasResults |-> FALSE, results |-> <<>>]
EmptyResults ==
  [status |-> 200, message |-> "", hasResults |-> TRUE, results |-> <<>>]
NoTablesKey ==
  [status |-> 200, message |-> "", hasResults |-> TRUE,
   results |-> <<[hasTables |-> FALSE, tables |-> <<>>]>>]
EmptyTables ==
  [status |-> 200, message |-> "", hasResults |-> TRUE,
   results |-> <<[hasTables |-> TRUE, tables |-> <<>>]>>]
Rejected ==
  [status |-> 400, message |-> "Query (1, 1) syntax error", hasResults |-> FALSE,
   results |-> <<>>]

NoTableEnvelopes == {NoResultsKey, EmptyResults, NoTablesKey, EmptyTables}
Envelopes == NoTableEnvelopes \cup {Rejected, OkEnvelope(stats)}
ToolEnvelopes == {OkEnvelope(stats), Rejected, EmptyResults}

\* the request that fails in transport, if any, of a call that issues at
\* most k requests
FailChoices(k) == {{}} \cup {{i} : i \in 1..k}

\* the state after a call on client c that ended as `result`
Finish(c, op, args, r, result) ==
  /\ cache' = [cache EXCEPT ![c] = r.ctx.cache]
  /\ listed' = [listed EXCEPT ![c] = @ \/ r.ctx.listed]
  /\ last' = [client |-> c, op |-> op, args |-> args,
              outcome |-> result.outcome, exc |-> result.exc, val |-> result.val,
              lists |-> r.ctx.lists, sent |-> r.ctx.sent, got |-> r.ctx.got,
              listedBefore |-> listed[c],
              resolvedBefore |-> IF op = "get_workspace_id" THEN resolved[c][args[1]] ELSE 0]
  /\ UNCHANGED <<svc, stats>>

\* a direct call of a client method: the caller sees what the method does
Direct(r) == IF Raised(r) THEN Propagated(r.exc) ELSE Returned(r.val)

(***************************************************************************)
(* PowerBIClient methods, called directly                                  *)
(***************************************************************************)
ClientListWorkspaces(c) ==
  \E fails \in FailChoices(1) :
    \E r \in {ListWorkspaces(Ctx(c), [svc |-> svc, fails |-> fails, posts |-> <<>>])} :
        /\ created
        /\ Finish(c, "list_workspaces", <<>>, r, Direct(r))
        /\ UNCHANGED <<created, resolved>>

ClientGetWorkspaceId(c, workspace_name) ==
  \E fails \in FailChoices(1) :
    \E r \in {GetWorkspaceId(Ctx(c), [svc |-> svc, fails |-> fails, posts |-> <<>>],
                            workspace_name)} :
        /\ created
        /\ Finish(c, "get_workspace_id", <<workspace_name>>, r, Direct(r))
        /\ resolved' = IF ~Raised(r) /\ resolved[c][workspace_name] = 0
                       THEN [resolved EXCEPT ![c][workspace_name] = r.val]
                       ELSE resolved
        /\ UNCHANGED created

ClientIsPremium(c, workspace_name) ==
  \E fails \in FailChoices(1) :
    \E r \in {IsPremium(Ctx(c), [svc |-> svc, fails |-> fails, posts |-> <<>>],
                       workspace_name)} :
        /\ created
        /\ Finish(c, "is_premium", <<workspace_name>>, r, Direct(r))
        /\ UNCHANGED <<created, resolved>>

ClientListDatasets(c, workspace_name) ==
  \E fails \in FailChoices(2) :
    \E r \in {ListDatasets(Ctx(c), [svc |-> svc, fails |-> fails, posts |-> <<>>],
                          workspace_name)} :
        /\ created
        /\ Finish(c, "list_datasets", <<workspace_name>>, r, Direct(r))
        /\ UNCHANGED <<created, resolved>>

ClientGetDatasetId(c, workspace_name, dataset_name) ==
  \E fails \in FailChoices(2) :
    \E r \in {GetDatasetId(Ctx(c), [svc |-> svc, fails |-> fails, posts |-> <<>>],
                          workspace_name, dataset_name)} :
        /\ created
        /\ Finish(c, "get_dataset_id", <<workspace_name, dataset_name>>, r, Direct(r))
        /\ UNCHANGED <<created, resolved>>

ClientExecuteDax(c, workspace_name, dataset_name) ==
  \E fails \in FailChoices(3), envelope \in Envelopes :
    \E r \in {ExecuteDax(Ctx(c), [svc |-> svc, fails |-> fails, posts |-> <<envelope>>],
                        workspace_name, dataset_name, [kind |-> "raw"])} :
        /\ created
        /\ Finish(c, "execute_dax", <<workspace_name, dataset_name>>, r, Direct(r))
        /\ UNCHANGED <<created, resolved>>

ClientDescribeDataset(c, workspace_name, dataset_name) ==
  \E fails \in FailChoices(4), envelope \in {OkEnvelope(stats), Rejected} :
    \E r \in {DescribeDataset(Ctx(c), [svc |-> svc, fails |-> fails, posts |-> <<envelope>>],
                             workspace_name, dataset_name)} :
        /\ created
        /\ Finish(c, "describe_dataset", <<workspace_name, dataset_name>>, r, Direct(r))
        /\ UNCHANGED <<created, resolved>>

(***************************************************************************)
(* mcp.py: the MCP tools.  Each starts with get_client(), which builds the *)
(* client on first use.                                                    *)
(***************************************************************************)
McpFinish(op, args, r, result) ==
  /\ created' = TRUE
  /\ Finish("mcp", op, args, r, result)
  /\ UNCHANGED resolved

McpListWorkspaces ==
  \E fails \in FailChoices(1) :
    \E r \in {ListWorkspaces(Ctx("mcp"), [svc |-> svc, fails |-> fails, posts |-> <<>>])} :
        McpFinish("mcp.list_workspaces", <<>>, r, McpTool(r, McpWorkspaceRows(r.val)))

McpListDatasets(workspace_name) ==
  \E fails \in FailChoices(2) :
    \E r \in {ListDatasets(Ctx("mcp"), [svc |-> svc, fails |-> fails, posts |-> <<>>],
                          workspace_name)} :
        McpFinish("mcp.list_datasets", <<workspace_name>>, r, McpTool(r, r.val))

McpReadTable(workspace_name, dataset_name, table_name, top_n) ==
  \E fails \in FailChoices(3), envelope \in ToolEnvelopes :
    \E r \in {ReadTable(Ctx("mcp"), [svc |-> svc, fails |-> fails, posts |-> <<envelope>>],
                       workspace_name, dataset_name, table_name, PyInt(top_n))} :
        McpFinish("mcp.read_table", <<workspace_name, dataset_name, table_name, top_n>>,
                  r, McpTool(r, r.val.rows))

McpExecuteDaxQuery(workspace_name, dataset_name) ==
  \E fails \in FailChoices(3), envelope \in ToolEnvelopes :
    \E r \in {ExecuteDax(Ctx("mcp"), [svc |-> svc, fails |-> fails, posts |-> <<envelope>>],
                        workspace_name, dataset_name, [kind |-> "raw"])} :
        McpFinish("mcp.execute_dax_query", <<workspace_name, dataset_name>>,
                  r, McpTool(r, r.val.rows))

McpDescribeDataset(workspace_name, dataset_name) ==
  \E fails \in FailChoices(4), envelope \in ToolEnvelopes :
    \E r \in {DescribeDataset(Ctx("mcp"), [svc |-> svc, fails |-> fails, posts |-> <<envelope>>],
                             workspace_name, dataset_name)} :
        McpFinish("mcp.describe_dataset", <<workspace_name, dataset_name>>,
                  r, McpTool(r, [schema |-> r.val, usage_hint |-> UsageHint]))

McpSearchTable(workspace_name, dataset_name, table_name, column_name, max_rows) ==
  \E fails \in FailChoices(3), envelope \in ToolEnvelopes :
    \E r \in {ExecuteDax(Ctx("mcp"), [svc |-> svc, fails |-> fails, posts |-> <<envelope>>],
                        workspace_name, dataset_name,
                        SearchTableQuery(table_name, column_name, <<"A">>, max_rows))} :
        McpFinish("mcp.search_table",
                  <<workspace_name, dataset_name, table_name, column_name, max_rows>>,
                  r, McpTool(r, r.val.rows))

(***************************************************************************)
(* api.py: the agent tools, on _pbi_client and the names found at import   *)
(***************************************************************************)
AgentFinish(op, args, r, result) ==
  /\ Finish("api", op, args, r, result)
  /\ UNCHANGED <<created, resolved>>

\* df.to_string, or the fixed sentence when df.empty
AgentText(df, emptyText) ==
  IF Len(df.rows) = 0 THEN [text |-> emptyText, detail |-> <<>>]
  ELSE [text |-> "rows", detail |-> df.rows]

AgentExecuteDax ==
  \E fails \in FailChoices(2), envelope \in ToolEnvelopes :
    \E r \in {ExecuteDax(Ctx("api"), [svc |-> svc, fails |-> fails, posts |-> <<envelope>>],
                        WORKSPACE_NAME, DATASET_NAME, [kind |-> "raw"])} :
        AgentFinish("api.execute_dax", <<>>, r,
                    AgentTool(r, AgentText(r.val, "Query returned no results."),
                              "Error executing DAX"))

AgentGetTableSample(table_name, num_rows) ==
  \E fails \in FailChoices(2), envelope \in ToolEnvelopes :
    \E r \in {ExecuteDax(Ctx("api"), [svc |-> svc, fails |-> fails, posts |-> <<envelope>>],
                        WORKSPACE_NAME, DATASET_NAME,
                        [kind |-> "TOPN", n |-> num_rows, table |-> table_name])} :
        AgentFinish("api.get_table_sample", <<table_name, num_rows>>, r,
                    AgentTool(r, AgentText(r.val, "Table is empty."),
                              "Error sampling table"))

\* the loop over schema["tables"], from table t on: a query that raises is
\* logged and skipped, a non-empty frame is appended to results
RECURSIVE SearchTables(_, _, _, _, _, _)
SearchTables(ctx, env, search_term, tables, t, results) ==
  IF t > Len(tables) THEN Ret(results, ctx)
  ELSE LET text_columns == TextColumns(tables[t])
           r == ExecuteDax(ctx, env, WORKSPACE_NAME, DATASET_NAME,
                           FilterQuery(tables[t].name, text_columns, search_term))
       IN  IF Len(text_columns) = 0
           THEN SearchTables(ctx, env, search_term, tables, t + 1, results)
           ELSE IF Raised(r)
                THEN SearchTables(r.ctx, env, search_term, tables, t + 1, results)
           ELSE SearchTables(r.ctx, env, search_term, tables, t + 1,
                             IF Len(r.val.rows) > 0
                             THEN Append(results, [table |-> tables[t].name,
                                                   matches |-> Len(r.val.rows),
                                                   rows |-> r.val.rows])
                             ELSE results)

\* the loop, on the schema describe_dataset yielded
SearchSchema(r, env, search_term) ==
  IF Raised(r) THEN r
  ELSE SearchTables(r.ctx, env, search_term, r.val.tables, 1, <<>>)

SearchAcrossTables(ctx, env, search_term) ==
  SearchSchema(DescribeDataset(ctx, env, WORKSPACE_NAME, DATASET_NAME), env, search_term)

MaxSearchPosts == 3

\* one call of the tool, meeting the transport failures `fails` and the
\* response envelopes `posts`, and recorded with `args`
AgentSearchCall(search_term, fails, posts, args) ==
  \E r \in {SearchAcrossTables(Ctx("api"), [svc |-> svc, fails |-> fails, posts |-> posts],
                              search_term)} :
      AgentFinish("api.search_across_tables", args, r,
                  AgentTool(r,
                            IF Len(r.val) > 0
                            THEN [text |-> "results", detail |-> r.val]
                            ELSE [text |-> "No matches found in any table.",
                                  detail |-> <<>>],
                            "Error searching tables"))

AgentSearchAcrossTables(search_term) ==
  \E fails \in FailChoices(3),
     posts \in [1..MaxSearchPosts -> {OkEnvelope(stats), Rejected}] :
    AgentSearchCall(search_term, fails, posts, <<search_term>>)

(***************************************************************************)
(* The service changes under the clients                                   *)
(***************************************************************************)
SvcRename(id, name) ==
  /\ svc[id] # Gone
  /\ svc[id] # name
  /\ svc' = [svc EXCEPT ![id] = name]
  /\ UNCHANGED <<stats, created, cache, listed, resolved, last>>

SvcDelete(id) ==
  /\ svc[id] # Gone
  /\ svc' = [svc EXCEPT ![id] = Gone]
  /\ UNCHANGED <<stats, created, cache, listed, resolved, last>>

(***************************************************************************)
(* Specifications                                                          *)
(***************************************************************************)
Startup ==
  [client |-> "api", op |-> "startup", args |-> <<>>, outcome |-> "returned",
   exc |-> NoExc, val |-> None, lists |-> 1, sent |-> <<StatsQuery>>,
   got |-> <<OkEnvelope(NoStats)>>,
   listedBefore |-> FALSE, resolvedBefore |-> 0]

\* api.py has listed the workspaces at import; mcp.py builds its client lazily
InitProcesses ==
  /\ svc = InitSvc
  /\ cache = [c \in Clients |-> IF c = "api" THEN CacheOf(Listing(InitSvc)) ELSE NoCache]
  /\ listed = [c \in Clients |-> c = "api"]
  /\ resolved = [c \in Clients |-> [w \in ArgWorkspaces |-> 0]]
  /\ last = Startup

\* One PowerBIClient, freshly constructed, under direct use of its methods
InitClient ==
  /\ InitProcesses
  /\ stats = NoStats
  /\ created = TRUE

NextClient ==
  \/ ClientListWorkspaces("mcp")
  \/ \E w \in ArgWorkspaces : ClientGetWorkspaceId("mcp", w)
  \/ \E w \in ArgWorkspaces : ClientIsPremium("mcp", w)
  \/ \E w \in ArgWorkspaces : ClientListDatasets("mcp", w)
  \/ \E w \in ArgWorkspaces, d \in ArgDatasets : ClientGetDatasetId("mcp", w, d)
  \/ \E t \in ToolTargets : ClientExecuteDax("mcp", t[1], t[2])
  \/ \E t \in ToolTargets : ClientDescribeDataset("mcp", t[1], t[2])
  \/ \E id \in 1..Len(WsIds), name \in WsNames : SvcRename(id, name)
  \/ \E id \in 1..Len(WsIds) : SvcDelete(id)

SpecClient == InitClient /\ [][NextClient]_vars

\* the statistics tables the service holds in the tool-surface specification

OneTable ==
  [style |-> "bracket",
   rows |-> <<Row(<<"S">>, <<"N">>, PyStr(<<"A","l">>), PyStr(<<"Z","o">>), PyInt(2)),
              Row(<<"S">>, <<"Q">>, PyInt(1), PyInt(9), PyInt(3))>>]
TwoTables ==
  [style |-> "bracket",
   rows |-> <<Row(<<"S">>, <<"N">>, PyStr(<<"A","l">>), PyStr(<<"Z","o">>), PyInt(2)),
              Row(<<"C">>, <<"M">>, PyStr(<<"B">>), PyStr(<<"Y">>), PyInt(2))>>]
StatsSamples == {NoStats, OneTable, TwoTables}

SvcStats(table) ==
  /\ stats # table
  /\ stats' = table
  /\ UNCHANGED <<svc, created, cache, listed, resolved, last>>

\* The two tool surfaces, each on its own client, against one service
Init ==
  /\ InitProcesses
  /\ stats = NoStats
  /\ created = FALSE

Next ==
  \/ McpListWorkspaces
  \/ \E w \in ArgWorkspaces : McpListDatasets(w)
  \/ \E t \in ToolTargets, n \in ArgLimits : McpReadTable(t[1], t[2], <<"S">>, n)
  \/ \E t \in ToolTargets : McpExecuteDaxQuery(t[1], t[2])
  \/ \E t \in ToolTargets : McpDescribeDataset(t[1], t[2])
  \/ \E t \in ToolTargets : McpSearchTable(t[1], t[2], <<"S">>, <<"N">>, 100)
  \/ AgentExecuteDax
  \/ \E n \in ArgLimits : AgentGetTableSample(<<"S">>, n)
  \/ AgentSearchAcrossTables(<<"A">>)
  \/ \E id \in 1..Len(WsIds) : SvcDelete(id)
  \/ \E table \in StatsSamples : SvcStats(table)

Spec == Init /\ [][Next]_vars

(***************************************************************************)
(* describe_dataset on a statistics table the service builds row by row.   *)
(* The model is published before it is described, and the service is       *)
(* healthy: the statistics query is answered with the table.               *)
(***************************************************************************)
MaxRows == 3
MaxInferRows == 2
MaxStrLen == 9

SvcEmitRow(row, limit) ==
  /\ last.op = "startup"
  /\ Len(stats.rows) < limit
  /\ stats' = [stats EXCEPT !.rows = Append(@, row)]
  /\ UNCHANGED <<svc, created, cache, listed, resolved, last>>

DescribeStats(c) ==
  \E r \in {DescribeDataset(Ctx(c),
                             [svc |-> svc, fails |-> {}, posts |-> <<OkEnvelope(stats)>>],
                             WORKSPACE_NAME, DATASET_NAME)} :
      /\ created
      /\ Finish(c, "describe_dataset", <<WORKSPACE_NAME, DATASET_NAME>>, r, Direct(r))
      /\ UNCHANGED <<created, resolved>>

InitStats ==
  /\ InitProcesses
  /\ created = TRUE
  /\ stats = NoStats

\* the service may spell the keys either way
InitStatsAnyStyle ==
  /\ InitProcesses
  /\ created = TRUE
  /\ stats \in {[style |-> st, rows |-> <<>>] : st \in {"bracket", "plain"}}

\* Filtering: table and column names with and without the reserved markers
FilterTables ==
  {<<"S">>, LocalDateTable \o <<"_", "1">>, <<"x">> \o DateTableTemplate,
   SubSeq(LocalDateTable, 1, Len(LocalDateTable) - 1)}
FilterColumns ==
  {<<"N">>, RowNumberMark \o <<"1">>, <<"C">> \o RowNumberMark \o <<"_", "I", "D">>,
   <<"C", "_", "I", "D">>}
FilterRows ==
  {Row(t, c, PyInt(1), PyInt(2), PyInt(2)) : t \in FilterTables, c \in FilterColumns}

NextFilter ==
  \/ \E row \in FilterRows : SvcEmitRow(row, MaxRows)
  \/ DescribeStats("api")

SpecFilter == InitStats /\ [][NextFilter]_vars

\* Relationships: two tables, key-shaped and other column names
KeyTables == {<<"S">>, <<"C">>}
KeyColumnNames ==
  {<<"A", " ", "K", "e", "y">>, <<"A", "_", "K", "e", "y">>, <<"A", " ", "I", "D">>,
   <<"A", "_", "I", "D">>, <<"A", "_", "i", "d">>, <<"I", "D">>,
   <<"C", "u", "s", "t", "o", "m", "e", "r", "I", "D">>, <<"N">>}
KeyRows ==
  {Row(t, c, PyInt(1), PyInt(2), PyInt(2)) : t \in KeyTables, c \in KeyColumnNames}

NextDescribe ==
  \/ \E row \in KeyRows : SvcEmitRow(row, MaxRows)
  \/ DescribeStats("api")

SpecDescribe == InitStats /\ [][NextDescribe]_vars

\* Type inference: one column, minimum values of every runtime type
RECURSIVE Pad(_)
Pad(n) == IF n = 0 THEN <<>> ELSE <<"a">> \o Pad(n - 1)

MinStrings ==
  {Pad(n) : n \in 0..MaxStrLen}
    \cup {Pad(n - 1) \o <<c>> : n \in 1..MaxStrLen, c \in DateSeparators}
MinValues ==
  {None, PyInt(-1), PyInt(0), PyInt(1), PyFloat(0), PyFloat(2), PyBool(TRUE),
   PyBool(FALSE)} \cup {PyStr(x) : x \in MinStrings}
InferRows == {Row(<<"S">>, <<"V">>, mn, PyInt(1), PyInt(1)) : mn \in MinValues}

NextInfer ==
  \/ \E row \in InferRows : SvcEmitRow(row, MaxInferRows)
  \/ DescribeStats("api")

SpecInfer == InitStatsAnyStyle /\ [][NextInfer]_vars

(***************************************************************************)
(* search_across_tables on statistics of up to three tables, with any one  *)
(* request of the call failing in transport and every query answered with  *)
(* rows, with no rows, or rejected.  The call is recorded with the         *)
(* transport failure it met.                                               *)
(***************************************************************************)
MaxSearchRequests == 7

\* a table with a text and a number column, a table of numbers, a table of text
TextAndNumber ==
  [style |-> "bracket",
   rows |-> <<Row(<<"S">>, <<"N">>, PyStr(<<"A","l">>), PyStr(<<"Z","o">>), PyInt(2)),
              Row(<<"S">>, <<"Q">>, PyInt(1), PyInt(9), PyInt(3))>>]
NumberThenText ==
  [style |-> "bracket",
   rows |-> <<Row(<<"M">>, <<"Q">>, PyInt(1), PyInt(9), PyInt(3)),
              Row(<<"C">>, <<"N">>, PyStr(<<"B">>), PyStr(<<"Y">>), PyInt(2))>>]
TextNumberText ==
  [style |-> "bracket",
   rows |-> <<Row(<<"S">>, <<"N">>, PyStr(<<"A","l">>), PyStr(<<"Z","o">>), PyInt(2)),
              Row(<<"M">>, <<"Q">>, PyInt(1), PyInt(9), PyInt(3)),
              Row(<<"C">>, <<"N">>, PyStr(<<"B">>), PyStr(<<"Y">>), PyInt(2))>>]
SearchSamples == {NoStats, TextAndNumber, NumberThenText, TextNumberText}

SearchEnvelopes == {OkEnvelope(stats), OkEnvelope(NoStats), Rejected}
SearchTerm == <<"A">>

AgentSearchObserved ==
  \E fails \in FailChoices(MaxSearchRequests),
     posts \in [1..MaxSearchPosts -> SearchEnvelopes] :
    AgentSearchCall(SearchTerm, fails, posts, <<SearchTerm, fails>>)

NextSearch ==
  \/ AgentSearchObserved
  \/ \E table \in SearchSamples : SvcStats(table)

SpecSearch == Init /\ [][NextSearch]_vars

(***************************************************************************)
(* Properties                                                              *)
(***************************************************************************)
ToolOps ==
  {"mcp.list_workspaces", "mcp.list_datasets", "mcp.read_table",
   "mcp.execute_dax_query", "mcp.describe_dataset", "mcp.search_table",
   "api.execute_dax", "api.get_table_sample", "api.search_across_tables"}

\* C1: every Tool Surface operation ends by returning a result value; no
\* exception of the resolver or of the query executor leaves a tool.
C1_ToolsNeverRaise ==
  last.op \in ToolOps => last.outcome = "returned"

\* C2: once a workspace listing has succeeded on a client (whatever it
\* returned), a later get_workspace_id or is_premium on that client issues
\* no workspace-listing request.
C2_NoListingAfterListing ==
  (last.op \in {"get_workspace_id", "is_premium"} /\ last.listedBefore)
    => last.lists = 0

\* C3: once get_workspace_id(name) has returned an id on a client, every
\* later get_workspace_id(name) on that client returns that same id.
C3_ResolvedIdIsStable ==
  (last.op = "get_workspace_id" /\ last.resolvedBefore # 0)
    => (last.outcome = "returned" /\ last.val = last.resolvedBefore)

\* the call got the dataset listing of a known workspace, and no entry of
\* that listing has the name asked for
UnknownDatasetOfKnownWorkspace ==
  /\ last.op = "get_dataset_id"
  /\ last.exc.type # "RequestException"
  /\ last.args[1] \in DOMAIN cache[last.client].map
  /\ LET df == DatasetListing(cache[last.client].map[last.args[1]].id)
     IN  \A i \in 1..Len(df) : df[i].name # last.args[2]

\* C4: get_dataset_id on a known workspace, with a dataset name that matches
\* no entry of the listing (the empty listing included), raises the
\* not-found error that names the dataset, and nothing else.
C4_UnknownDatasetIsNotFound ==
  UnknownDatasetOfKnownWorkspace
    => /\ last.outcome = "raised"
       /\ last.exc.type = "ValueError"
       /\ last.exc.msg = <<"Dataset not found", last.args[2], last.args[1]>>

\* C5: execute_dax returns an empty row sequence, and raises nothing, for
\* every status-200 envelope that holds no result table.
C5_NoTablesIsEmptyResult ==
  (last.op = "execute_dax" /\ Len(last.got) = 1 /\ last.got[1] \in NoTableEnvelopes)
    => (last.outcome = "returned" /\ last.val.rows = <<>>)

\* the raw statistics rows a describe_dataset call received
RawRows == last.got[1].results[1].tables[1].rows

Described == last.op = "describe_dataset" /\ last.outcome = "returned"

\* C6: a statistics row whose minimum is an integer or a float (0 and
\* negative values included) gives the derived column the dataType Number.
C6_NumericMinIsNumber ==
  Described =>
    \A i \in 1..Len(RawRows) :
      RawRows[i].min.k \in {"int", "float"}
        => last.val.tables[1].columns[i].dataType = "Number"

\* C7: a statistics row whose minimum is a string (the empty string
\* included) gives DateTime exactly when the string holds '-', '/' or ':'
\* and is at least 8 long, and Text otherwise.
C7_StringMinIsDateTimeOrText ==
  Described =>
    \A i \in 1..Len(RawRows) :
      RawRows[i].min.k = "str"
        => last.val.tables[1].columns[i].dataType =
             (IF /\ \E j \in 1..Len(RawRows[i].min.v) :
                       RawRows[i].min.v[j] \in {"-", "/", ":"}
                 /\ Len(RawRows[i].min.v) >= 8
              THEN "DateTime" ELSE "Text")

HasDateTableMark(name) ==
  /\ name.k = "str"
  /\ \/ Contains(name.v, DateTableTemplate)
     \/ Contains(name.v, LocalDateTable)

HasRowNumberMark(name) ==
  /\ name.k = "str"
  /\ Contains(name.v, RowNumberMark)

\* C8: whatever the statistics rows are, no table of the result has a name
\* containing 'DateTableTemplate' or 'LocalDateTable' and no column has a
\* name containing 'RowNumber-': in tables, in relationships and in the
\* rendered lines alike.
C8_NoSyntheticTablesOrColumns ==
  Described =>
    LET schema == last.val
    IN  /\ \A t \in 1..Len(schema.tables) :
             /\ ~HasDateTableMark(schema.tables[t].name)
             /\ \A c \in 1..Len(schema.tables[t].columns) :
                  ~HasRowNumberMark(schema.tables[t].columns[c].name)
        /\ \A r \in 1..Len(schema.relationships) :
             /\ ~HasRowNumberMark(schema.relationships[r].keyColumn)
             /\ \A j \in 1..Len(schema.relationships[r].tables) :
                  ~HasDateTableMark(schema.relationships[r].tables[j])
        /\ \A l \in 1..Len(schema.llm_context) :
             LET line == schema.llm_context[l]
             IN  /\ line.kind = "table" => ~HasDateTableMark(line.name)
                 /\ line.kind = "column" => ~HasRowNumberMark(line.name)
                 /\ line.kind = "rel" =>
                      /\ ~HasRowNumberMark(line.keyColumn)
                      /\ \A j \in 1..Len(line.tables) : ~HasDateTableMark(line.tables[j])

\* a description of rows of which one names a date table, another a row
\* number column of a real table, and a third survives
C8_Witness ==
  /\ Described
  /\ \E i \in 1..Len(RawRows) : HasDateTableMark(RawRows[i].table)
  /\ \E i \in 1..Len(RawRows) :
       ~HasDateTableMark(RawRows[i].table) /\ HasRowNumberMark(RawRows[i].column)
  /\ Len(last.val.tables) >= 1
  /\ Len(last.val.tables[1].columns) >= 1

\* the distinct table names of the raw rows, in first-seen order
FirstSeenTables ==
  LET Idx == [i \in 1..Len(RawRows) |-> i]
      IsFirst(i) == \A j \in 1..(i - 1) : RawRows[j].table # RawRows[i].table
      firsts == SelectSeq(Idx, IsFirst)
  IN  [n \in 1..Len(firsts) |-> RawRows[firsts[n]].table]

\* those of them that hold a column named c
TablesHaving(c) ==
  LET Has(t) == \E i \in 1..Len(RawRows) : RawRows[i].table = t /\ RawRows[i].column = c
  IN  SelectSeq(FirstSeenTables, Has)

\* the relationships of the result whose key column is c
RelationshipsOn(c) ==
  {r \in 1..Len(last.val.relationships) : last.val.relationships[r].keyColumn = c}

CustomerID == PyStr(<<"C", "u", "s", "t", "o", "m", "e", "r", "I", "D">>)

\* C9: two tables that each hold a column named 'CustomerID' give exactly
\* one Relationship with keyColumn 'CustomerID', listing both tables in
\* first-seen order.
C9_CustomerIdLinksTables ==
  (Described /\ Len(TablesHaving(CustomerID)) = 2)
    => /\ Cardinality(RelationshipsOn(CustomerID)) = 1
       /\ \A r \in RelationshipsOn(CustomerID) :
            last.val.relationships[r].tables = TablesHaving(CustomerID)

NoDuplicatePairs ==
  \A i, j \in 1..Len(RawRows) :
    (RawRows[i].table = RawRows[j].table /\ RawRows[i].column = RawRows[j].column)
      => i = j

\* a name ending in ' Key', '_Key', ' ID', '_ID' or '_id', or the name 'ID'
KeyNamed(name) ==
  /\ name.k = "str"
  /\ LET n == Len(name.v)
         Tail3 == SubSeq(name.v, n - 2, n)
         Tail4 == SubSeq(name.v, n - 3, n)
     IN  \/ n >= 4 /\ Tail4 \in {<<" ","K","e","y">>, <<"_","K","e","y">>}
         \/ n >= 3 /\ Tail3 \in {<<" ","I","D">>, <<"_","I","D">>, <<"_","i","d">>}
         \/ name.v = <<"I","D">>

TableSet(tables) == {tables[i] : i \in 1..Len(tables)}

\* C11: whatever the statistics rows, repeated (table, column) pairs
\* included, every Relationship lists at least 2 distinct table names and
\* lists no table name twice.
C11_RelationshipsLinkDistinctTables ==
  Described =>
    \A r \in 1..Len(last.val.relationships) :
      /\ Cardinality(TableSet(last.val.relationships[r].tables)) >= 2
      /\ Cardinality(TableSet(last.val.relationships[r].tables))
           = Len(last.val.relationships[r].tables)

\* the table lines of the rendered text, one per output column
ColumnLines ==
  LET IsColumn(line) == line.kind = "column"
  IN  SelectSeq(last.val.llm_context, IsColumn)

\* both the minimum and the maximum of a raw row are present (non-null)
BothPresent(row) == row.min.k # "null" /\ row.max.k # "null"

\* C12: the Sample Range cell of a column is '{min} to {max}' whenever the
\* minimum and the maximum of its raw row are both non-null (0, 0.0, False
\* and the empty string included), and 'N/A' exactly when one is absent.
C12_SampleRangeWhenBothPresent ==
  (Described /\ Len(ColumnLines) = Len(RawRows))
    => \A i \in 1..Len(RawRows) :
         ColumnLines[i].sample.na = ~BothPresent(RawRows[i])

\* the raw rows that pass both `continue` guards, in stream order
Surviving ==
  LET Passes(row) == ~HasDateTableMark(row.table) /\ ~HasRowNumberMark(row.column)
  IN  SelectSeq(RawRows, Passes)

\* the table names of the surviving rows, each at its first occurrence
SurvivingTables ==
  LET Idx == [i \in 1..Len(Surviving) |-> i]
      IsFirst(i) == \A j \in 1..(i - 1) : Surviving[j].table # Surviving[i].table
      firsts == SelectSeq(Idx, IsFirst)
  IN  [n \in 1..Len(firsts) |-> Surviving[firsts[n]].table]

\* the column names of the surviving rows of table t, in stream order
SurvivingColumns(t) ==
  LET OfTable(row) == row.table = t
      rows == SelectSeq(Surviving, OfTable)
  IN  [c \in 1..Len(rows) |-> rows[c].column]

\* heading and column lines expected in the text, from table n on
RECURSIVE ExpectedOutline(_)
ExpectedOutline(n) ==
  IF n > Len(SurvivingTables) THEN <<>>
  ELSE <<[kind |-> "table", name |-> SurvivingTables[n]]>>
       \o [c \in 1..Len(SurvivingColumns(SurvivingTables[n])) |->
            [kind |-> "column", name |-> SurvivingColumns(SurvivingTables[n])[c]]]
       \o ExpectedOutline(n + 1)

\* the '###' headings and the column lines of the rendered text, in order
Outline ==
  LET IsEntry(line) == line.kind \in {"table", "column"}
      entries == SelectSeq(last.val.llm_context, IsEntry)
  IN  [i \in 1..Len(entries) |-> [kind |-> entries[i].kind, name |-> entries[i].name]]

\* C13: the tables of the result are the tables of the surviving rows in
\* first-seen order, the columns of each are its surviving rows in stream
\* order, and the rendered text has one heading per table and one line per
\* column in that same order.
C13_OutputKeepsStreamOrder ==
  Described =>
    /\ [n \in 1..Len(last.val.tables) |-> last.val.tables[n].name] = SurvivingTables
    /\ \A n \in 1..Len(last.val.tables) :
         [c \in 1..Len(last.val.tables[n].columns) |-> last.val.tables[n].columns[c].name]
           = SurvivingColumns(last.val.tables[n].name)
    /\ Outline = ExpectedOutline(1)

\* two tables met in turn, the first holding two different columns of
\* which the second comes after the other table's row
C13_Witness ==
  /\ Described
  /\ Len(RawRows) = MaxRows
  /\ Len(last.val.tables) = 2
  /\ RawRows[2].table = last.val.tables[2].name
  /\ RawRows[3].table = last.val.tables[1].name
  /\ Len(last.val.tables[1].columns) = 2
  /\ last.val.tables[1].columns[1].name # last.val.tables[1].columns[2].name

\* C14: whatever the limit passed to read_table (0 included), every query
\* the call posts is a TOPN query bounded by that limit; the whole-table
\* query is never posted.
C14_ReadTableIsBounded ==
  last.op = "mcp.read_table" =>
    \A q \in 1..Len(last.sent) :
      /\ last.sent[q].kind = "TOPN"
      /\ last.sent[q].n = last.args[4]

\* a search call recorded with the transport failures it met
SearchObserved == last.op = "api.search_across_tables" /\ Len(last.args) = 2
SearchFails == last.args[2]

\* describe_dataset inside the call issues requests 1, 2 (dataset listings)
\* and 3 (the statistics query): the schema is fetched when none of them
\* fails and the query is answered 200
SchemaFetched ==
  /\ SearchFails \cap (1..3) = {}
  /\ Len(last.got) >= 1
  /\ last.got[1].status = 200

\* the rows of a 200 envelope, as a frame holds them
FrameRows(envelope) ==
  DataFrame(envelope.results[1].tables[1].style, envelope.results[1].tables[1].rows).rows

\* the tables of the fetched schema that have a column of type Text
TextTables ==
  LET HasText(table) == \E c \in 1..Len(table.columns) : table.columns[c].dataType = "Text"
  IN  SelectSeq(Tables(DataFrame(last.got[1].results[1].tables[1].style, RawRows)), HasText)

\* the names of the Text columns of a table
TextColumnNames(table) ==
  LET IsText(col) == col.dataType = "Text"
      cols == SelectSeq(table.columns, IsText)
  IN  [c \in 1..Len(cols) |-> cols[c].name]

\* What the claim prescribes from text table i on, after n requests and
\* `received` envelopes: the dataset listing is request n + 1 and the filter
\* query request n + 2; a table whose listing or query fails, or whose query
\* is rejected, is skipped; rows of an answered query are collected.
RECURSIVE ExpectedSearch(_, _, _, _)
ExpectedSearch(i, n, received, acc) ==
  IF i > Len(TextTables) THEN acc
  ELSE LET query == [kind |-> "FILTER", table |-> TextTables[i].name,
                     columns |-> TextColumnNames(TextTables[i]), term |-> SearchTerm]
           posted == [acc EXCEPT !.sent = Append(@, query)]
           envelope == last.got[received + 1]
           rows == IF envelope.status = 200 THEN FrameRows(envelope) ELSE <<>>
       IN  IF (n + 1) \in SearchFails THEN ExpectedSearch(i + 1, n + 1, received, acc)
           ELSE IF (n + 2) \in SearchFails
                THEN ExpectedSearch(i + 1, n + 2, received, posted)
           ELSE ExpectedSearch(i + 1, n + 2, received + 1,
                               IF Len(rows) > 0
                               THEN [posted EXCEPT !.results =
                                       Append(@, [table |-> TextTables[i].name,
                                                  matches |-> Len(rows), rows |-> rows])]
                               ELSE posted)

Expected == ExpectedSearch(1, 3, 1, [sent |-> <<StatsQuery>>, results |-> <<>>])

\* C15: search_across_tables posts one filter query per table that has a
\* Text column, in table order, and returns the non-empty results of the
\* queries that succeeded; a query that fails is skipped without stopping
\* the later queries, dropping collected results or giving the error
\* string, which only a failed schema fetch gives.
C15_SearchSkipsFailedTables ==
  SearchObserved =>
    /\ last.outcome = "returned"
    /\ IF SchemaFetched
       THEN /\ last.sent = Expected.sent
            /\ last.val = IF Len(Expected.results) > 0
                          THEN [text |-> "results", detail |-> Expected.results]
                          ELSE [text |-> "No matches found in any table.", detail |-> <<>>]
       ELSE last.val.text = "Error searching tables"

\* two text tables: the query of the first is rejected, the rows of the
\* second are returned
C15_Witness ==
  /\ SearchObserved
  /\ SchemaFetched
  /\ Len(TextTables) = 2
  /\ Len(last.got) = 3
  /\ last.got[2].status # 200
  /\ last.val.text = "results"
  /\ Len(last.val.detail) = 1
  /\ last.val.detail[1].table = TextTables[2].name

====
